---- MODULE Spec2Model ----
(***************************************************************************)
(* Model of integrations/databricks/dlt_expectations.py: the host-engine   *)
(* resolver _get_dlt_library and the decorator factory expect(), whose     *)
(* wrapper is followed statement by statement (pc is the wrapper's         *)
(* position).  Python's None is the string "None"; an unbound local name   *)
(* is the value Unbound.                                                   *)
(***************************************************************************)
EXTENDS Integers, Sequences, FiniteSets, TLC

\* ------------------------------------------------------------------ bounds
MaxCalls == 2
MaxArgs == 2

\* ------------------------------------------------------------- value sets
None == "None"

Names == {"positive_col1", "col2_set"}
Conditions == {"col1 > 0", "col2 IS NOT NULL"}
DataContexts == {"data_context"}
Configurations == {"not_null_col1", "unique_col2"}
Engines == {"dlt_mock_library", "dlt_stub"}
GlobalEngines == {"dlt"}
Funcs == {"addColumn", "dropColumn"}
ArgValues == {"df1", "df2"}
KwargsValues == {{}, {<<"spark", "session">>}}
ArgsValues == UNION {[1..n -> ArgValues] : n \in 0..MaxArgs}

\* exceptions surfaced to the caller of the wrapped function
ModuleNotFoundError == "ModuleNotFoundError"
UnsupportedExpectationConfiguration == "UnsupportedExpectationConfiguration"
IndexError == "IndexError"
UnboundLocalError == "UnboundLocalError"
CheckpointError == "CheckpointError"

\* ------------------------------------------- external value objects (4.2)
\* ValidationConfig: a rule type with a target column.
NoConfig == [expectation_type |-> None, column |-> None]

ExpectationConfiguration(cfg) ==
    CASE cfg = "not_null_col1" ->
            [expectation_type |-> "expect_column_values_to_not_be_null", column |-> "col1"]
      [] cfg = "unique_col2" ->
            [expectation_type |-> "expect_column_values_to_be_unique", column |-> "col2"]
      [] OTHER -> NoConfig

\* HostExpectation: a name and a boolean condition; Unbound is the local
\* name dlt_expectation before any assignment.
Unbound == [name |-> "<unbound>", condition |-> "<unbound>"]

DLTExpectation(name, condition) == [name |-> name, condition |-> condition]

\* the column a condition string speaks about
ConditionColumn(condition) ==
    CASE condition = "col1 > 0" -> "col1"
      [] condition = "col2 IS NOT NULL" -> "col2"
      [] OTHER -> None

\* toConfig: one (name, condition) pair and a target rule type
translate_dlt_expectation_to_expectation_config(dlt_expectations, ge_expectation_type) ==
    IF ge_expectation_type = "expect_column_values_to_not_be_null"
    THEN [ok |-> TRUE,
          config |-> [expectation_type |-> ge_expectation_type,
                      column |-> ConditionColumn(dlt_expectations[1][2])]]
    ELSE [ok |-> FALSE, config |-> NoConfig]

\* toHostExpectation: a structured rule and an override name
from_great_expectations_expectation(ge_expectation_configuration, dlt_expectation_name) ==
    LET c == ExpectationConfiguration(ge_expectation_configuration) IN
    IF c.expectation_type = "expect_column_values_to_not_be_null"
    THEN [ok |-> TRUE,
          expectation |-> DLTExpectation(dlt_expectation_name,
                            IF c.column = "col1" THEN "col1 IS NOT NULL"
                                                 ELSE "col2 IS NOT NULL")]
    ELSE [ok |-> FALSE, expectation |-> Unbound]

\* the wrapped function, as the value it returns for its arguments
NoValue == [f |-> None, args |-> <<>>, kwargs |-> {}]

Apply(f, a, kw) == [f |-> f, args |-> a, kwargs |-> kw]

\* ------------------------------------------------------------------ state
VARIABLES
    globalDlt,          \* the process-global name dlt: None or an engine
    dlt_mock_library,   \* module attribute set by the import at lines 27-34
    stage,              \* "start", "factory" (expect called), "wrapped"
    ctx,                \* the decoration context captured by expect()
    func,               \* the decorated function
    pc,                 \* position of the running call of wrapper_expect
    args, kwargs,       \* arguments of the running (or last) call
    dlt,                \* wrapper local: the resolved engine
    dlt_expectation,    \* wrapper local
    ge_expectation,     \* wrapper local
    log,                \* steps performed by the running (or last) call
    checkpointRuns,     \* checkpoint runs of the running (or last) call
    registrations,      \* dlt.expect calls of the running (or last) call
    funcCalls,          \* calls of the original function in that call
    outcome,            \* how the last call ended
    checks,             \* outcome of the condition/configuration check, per call
    ncalls              \* calls of the wrapped function started so far

vars == <<globalDlt, dlt_mock_library, stage, ctx, func, pc, args, kwargs, dlt,
          dlt_expectation, ge_expectation, log, checkpointRuns, registrations,
          funcCalls, outcome, checks, ncalls>>

env == <<globalDlt, dlt_mock_library>>
locals == <<dlt, dlt_expectation, ge_expectation>>
effects == <<checkpointRuns, registrations, funcCalls>>

NoCtx == [dlt_expectation_name |-> None, dlt_expectation_condition |-> None,
          data_context |-> None, ge_expectation_configuration |-> None,
          dlt_library |-> None]

NoOutcome == [kind |-> "none", err |-> None, value |-> NoValue]
Raised(e) == [kind |-> "raised", err |-> e, value |-> NoValue]
Returned(v) == [kind |-> "returned", err |-> None, value |-> v]

Init ==
    /\ globalDlt \in GlobalEngines \cup {None}
    /\ dlt_mock_library \in {"dlt_mock_library", None}
    /\ stage = "start"
    /\ ctx = NoCtx
    /\ func = None
    /\ pc = "idle"
    /\ args = <<>>
    /\ kwargs = {}
    /\ dlt = None
    /\ dlt_expectation = Unbound
    /\ ge_expectation = NoConfig
    /\ log = <<>>
    /\ checkpointRuns = <<>>
    /\ registrations = <<>>
    /\ funcCalls = <<>>
    /\ outcome = NoOutcome
    /\ checks = <<>>
    /\ ncalls = 0

\* --------------------------------------------------------------- resolver
UnboundName == "<unbound name>"

\* The binding that the read of the name dlt at line 51 finds.  The function
\* assigns dlt (line 53), so the name is local to it; at line 51 the local
\* has no value yet, and the global name dlt is not consulted.
DltAtLine51(global) == UnboundName

get_dlt_library_no_raise(dlt_library, global) ==
    IF dlt_library = None THEN "dlt_mock_library" ELSE dlt_library

\* _get_dlt_library: the engine, or ModuleNotFoundError when it raises.
\* Reading an unbound name raises a NameError (UnboundLocalError is one),
\* caught at line 52.
get_dlt_library(dlt_library, global) ==
    LET d == IF DltAtLine51(global) = UnboundName
             THEN dlt_library
             ELSE DltAtLine51(global)
    IN IF d = None THEN ModuleNotFoundError ELSE d

\* ----------------------------------------------------------- decoration
ExpectEager ==
    /\ stage = "start"
    /\ \E n \in Names \cup {None}, c \in Conditions \cup {None},
          dc \in DataContexts \cup {None}, g \in Configurations \cup {None},
          l \in Engines \cup {None, dlt_mock_library} :
            /\ ctx' = [dlt_expectation_name |-> n, dlt_expectation_condition |-> c,
                       data_context |-> dc, ge_expectation_configuration |-> g,
                       dlt_library |-> l]
            /\ outcome' = IF (c = None) = (g = None)
                          THEN [kind |-> "raised",
                                err |-> UnsupportedExpectationConfiguration,
                                value |-> NoValue]
                          ELSE outcome
    /\ stage' = "factory"
    /\ UNCHANGED <<env, func, pc, args, kwargs, locals, log, effects,
                   checks, ncalls>>

\* expect(...): captures the options, returns decorator_expect
Expect ==
    /\ stage = "start"
    /\ \E n \in Names \cup {None}, c \in Conditions \cup {None},
          dc \in DataContexts \cup {None}, g \in Configurations \cup {None},
          l \in Engines \cup {None, dlt_mock_library} :
            ctx' = [dlt_expectation_name |-> n, dlt_expectation_condition |-> c,
                    data_context |-> dc, ge_expectation_configuration |-> g,
                    dlt_library |-> l]
    /\ stage' = "factory"
    /\ UNCHANGED <<env, func, pc, args, kwargs, locals, log, effects, outcome,
                   checks, ncalls>>

\* decorator_expect(func): returns wrapper_expect
DecoratorExpect ==
    /\ stage = "factory"
    /\ func' \in Funcs
    /\ stage' = "wrapped"
    /\ UNCHANGED <<env, ctx, pc, args, kwargs, locals, log, effects, outcome,
                   checks, ncalls>>

\* ------------------------------------------------------ wrapper_expect
\* the statements of the wrapper in program order
NextStepRegisterFirst(step) ==
    CASE step = "resolve" -> "validate"
      [] step = "validate" -> "translate"
      [] step = "translate" -> "register"
      [] step = "register" -> "checkpoint"
      [] step = "checkpoint" -> "func"
      [] OTHER -> "idle"

NextStep(step) ==
    CASE step = "resolve" -> "validate"
      [] step = "validate" -> "translate"
      [] step = "translate" -> "checkpoint"
      [] step = "checkpoint" -> "register"
      [] step = "register" -> "func"
      [] OTHER -> "idle"

FirstStep == "resolve"

Raise(e) ==
    /\ outcome' = Raised(e)
    /\ pc' = "idle"

\* a call wrapper_expect(*args, **kwargs) begins
Call ==
    /\ stage = "wrapped"
    /\ pc = "idle"
    /\ ncalls < MaxCalls
    /\ args' \in ArgsValues
    /\ kwargs' \in KwargsValues
    /\ ncalls' = ncalls + 1
    /\ pc' = FirstStep
    /\ dlt' = None
    /\ dlt_expectation' = Unbound
    /\ ge_expectation' = NoConfig
    /\ log' = <<>>
    /\ checkpointRuns' = <<>>
    /\ registrations' = <<>>
    /\ funcCalls' = <<>>
    /\ outcome' = NoOutcome
    /\ UNCHANGED <<env, stage, ctx, func, checks>>

\* line 85
Resolve ==
    /\ pc = "resolve"
    /\ log' = Append(log, "resolve")
    /\ LET r == get_dlt_library(ctx.dlt_library, globalDlt) IN
         IF r = ModuleNotFoundError
         THEN /\ Raise(ModuleNotFoundError)
              /\ UNCHANGED dlt
         ELSE /\ dlt' = r
              /\ pc' = NextStep("resolve")
              /\ UNCHANGED outcome
    /\ UNCHANGED <<env, stage, ctx, func, args, kwargs, dlt_expectation,
                   ge_expectation, effects, checks, ncalls>>

\* lines 87-100
ValidateNoBothCheck ==
    /\ pc = "validate"
    /\ log' = Append(log, "validate")
    /\ IF /\ ctx.dlt_expectation_condition = None
          /\ ctx.ge_expectation_configuration = None
       THEN /\ Raise(UnsupportedExpectationConfiguration)
            /\ checks' = Append(checks, "neither")
       ELSE /\ pc' = NextStep("validate")
            /\ checks' = Append(checks, "ok")
            /\ UNCHANGED outcome
    /\ UNCHANGED <<env, stage, ctx, func, args, kwargs, locals, effects, ncalls>>

ValidateNoNeitherCheck ==
    /\ pc = "validate"
    /\ log' = Append(log, "validate")
    /\ IF /\ ctx.dlt_expectation_condition # None
          /\ ctx.ge_expectation_configuration # None
       THEN /\ Raise(UnsupportedExpectationConfiguration)
            /\ checks' = Append(checks, "both")
       ELSE /\ pc' = NextStep("validate")
            /\ checks' = Append(checks, "ok")
            /\ UNCHANGED outcome
    /\ UNCHANGED <<env, stage, ctx, func, args, kwargs, locals, effects, ncalls>>

Validate ==
    /\ pc = "validate"
    /\ log' = Append(log, "validate")
    /\ IF /\ ctx.dlt_expectation_condition # None
          /\ ctx.ge_expectation_configuration # None
       THEN /\ Raise(UnsupportedExpectationConfiguration)
            /\ checks' = Append(checks, "both")
       ELSE IF /\ ctx.dlt_expectation_condition = None
               /\ ctx.ge_expectation_configuration = None
       THEN /\ Raise(UnsupportedExpectationConfiguration)
            /\ checks' = Append(checks, "neither")
       ELSE /\ pc' = NextStep("validate")
            /\ checks' = Append(checks, "ok")
            /\ UNCHANGED outcome
    /\ UNCHANGED <<env, stage, ctx, func, args, kwargs, locals, effects, ncalls>>

\* lines 103-123
Translate ==
    /\ pc = "translate"
    /\ log' = Append(log, "translate")
    /\ IF ctx.dlt_expectation_condition # None
       THEN LET e == DLTExpectation(ctx.dlt_expectation_name,
                                    ctx.dlt_expectation_condition)
                t == translate_dlt_expectation_to_expectation_config(
                        <<<<e.name, e.condition>>>>,
                        "expect_column_values_to_not_be_null")
            IN IF t.ok
               THEN /\ dlt_expectation' = e
                    /\ ge_expectation' = t.config
                    /\ pc' = NextStep("translate")
                    /\ UNCHANGED outcome
               ELSE /\ Raise(UnsupportedExpectationConfiguration)
                    /\ dlt_expectation' = e
                    /\ UNCHANGED ge_expectation
       ELSE IF ctx.ge_expectation_configuration # None
       THEN LET t == from_great_expectations_expectation(
                        ctx.ge_expectation_configuration, ctx.dlt_expectation_name)
            IN IF t.ok
               THEN /\ dlt_expectation' = t.expectation
                    /\ pc' = NextStep("translate")
                    /\ UNCHANGED <<ge_expectation, outcome>>
               ELSE /\ Raise(UnsupportedExpectationConfiguration)
                    /\ UNCHANGED <<dlt_expectation, ge_expectation>>
       ELSE /\ pc' = NextStep("translate")
            /\ UNCHANGED <<dlt_expectation, ge_expectation, outcome>>
    /\ UNCHANGED <<env, stage, ctx, func, args, kwargs, dlt, effects, checks, ncalls>>

\* run_ge_checkpoint_on_dataframe_from_suite, as seen by its caller: it
\* returns or raises
CheckpointResults == {"returns", "raises"}

\* lines 127-132
CheckpointSwallow ==
    /\ pc = "checkpoint"
    /\ IF ctx.data_context # None
       THEN IF Len(args) = 0
            THEN /\ Raise(IndexError)
                 /\ UNCHANGED <<log, checkpointRuns>>
            ELSE /\ log' = Append(log, "checkpoint")
                 /\ checkpointRuns' = Append(checkpointRuns,
                        [data_context |-> ctx.data_context, df |-> args[1],
                         expectation_configuration |-> ctx.ge_expectation_configuration,
                         result |-> "raises"])
                 /\ pc' = NextStep("checkpoint")
                 /\ UNCHANGED outcome
       ELSE /\ pc' = NextStep("checkpoint")
            /\ UNCHANGED <<log, checkpointRuns, outcome>>
    /\ UNCHANGED <<env, stage, ctx, func, args, kwargs, locals, registrations,
                   funcCalls, checks, ncalls>>

CheckpointTranslated ==
    /\ pc = "checkpoint"
    /\ IF ctx.data_context # None
       THEN IF Len(args) = 0
            THEN /\ Raise(IndexError)
                 /\ UNCHANGED <<log, checkpointRuns>>
            ELSE \E r \in CheckpointResults :
                 /\ log' = Append(log, "checkpoint")
                 /\ checkpointRuns' = Append(checkpointRuns,
                        [data_context |-> ctx.data_context, df |-> args[1],
                         expectation_configuration |->
                            IF ctx.ge_expectation_configuration # None
                            THEN ctx.ge_expectation_configuration
                            ELSE "not_null_col1",
                         result |-> r])
                 /\ IF r = "raises"
                    THEN Raise(CheckpointError)
                    ELSE /\ pc' = NextStep("checkpoint")
                         /\ UNCHANGED outcome
       ELSE /\ pc' = NextStep("checkpoint")
            /\ UNCHANGED <<log, checkpointRuns, outcome>>
    /\ UNCHANGED <<env, stage, ctx, func, args, kwargs, locals, registrations,
                   funcCalls, checks, ncalls>>

Checkpoint ==
    /\ pc = "checkpoint"
    /\ IF ctx.data_context # None
       THEN IF Len(args) = 0
            THEN /\ Raise(IndexError)
                 /\ UNCHANGED <<log, checkpointRuns>>
            ELSE \E r \in CheckpointResults :
                 /\ log' = Append(log, "checkpoint")
                 /\ checkpointRuns' = Append(checkpointRuns,
                        [data_context |-> ctx.data_context, df |-> args[1],
                         expectation_configuration |-> ctx.ge_expectation_configuration,
                         result |-> r])
                 /\ IF r = "raises"
                    THEN Raise(CheckpointError)
                    ELSE /\ pc' = NextStep("checkpoint")
                         /\ UNCHANGED outcome
       ELSE /\ pc' = NextStep("checkpoint")
            /\ UNCHANGED <<log, checkpointRuns, outcome>>
    /\ UNCHANGED <<env, stage, ctx, func, args, kwargs, locals, registrations,
                   funcCalls, checks, ncalls>>

\* lines 136-144; reading dlt_expectation while it is unbound raises
RegisterSwapped ==
    /\ pc = "register"
    /\ IF dlt_expectation = Unbound
       THEN /\ Raise(UnboundLocalError)
            /\ UNCHANGED <<log, registrations>>
       ELSE /\ log' = Append(log, "register")
            /\ registrations' = Append(registrations,
                   [engine |-> dlt, name |-> dlt_expectation.condition,
                    condition |-> dlt_expectation.name])
            /\ pc' = NextStep("register")
            /\ UNCHANGED outcome
    /\ UNCHANGED <<env, stage, ctx, func, args, kwargs, locals, checkpointRuns,
                   funcCalls, checks, ncalls>>

Register ==
    /\ pc = "register"
    /\ IF dlt_expectation = Unbound
       THEN /\ Raise(UnboundLocalError)
            /\ UNCHANGED <<log, registrations>>
       ELSE /\ log' = Append(log, "register")
            /\ registrations' = Append(registrations,
                   [engine |-> dlt, name |-> dlt_expectation.name,
                    condition |-> dlt_expectation.condition])
            /\ pc' = NextStep("register")
            /\ UNCHANGED outcome
    /\ UNCHANGED <<env, stage, ctx, func, args, kwargs, locals, checkpointRuns,
                   funcCalls, checks, ncalls>>

\* line 146
CallFuncDropKwargs ==
    /\ pc = "func"
    /\ log' = Append(log, "func")
    /\ funcCalls' = Append(funcCalls, [args |-> args, kwargs |-> {}])
    /\ outcome' = Returned(Apply(func, args, {}))
    /\ pc' = NextStep("func")
    /\ UNCHANGED <<env, stage, ctx, func, args, kwargs, locals, checkpointRuns,
                   registrations, checks, ncalls>>

CallFunc ==
    /\ pc = "func"
    /\ log' = Append(log, "func")
    /\ funcCalls' = Append(funcCalls, [args |-> args, kwargs |-> kwargs])
    /\ outcome' = Returned(Apply(func, args, kwargs))
    /\ pc' = NextStep("func")
    /\ UNCHANGED <<env, stage, ctx, func, args, kwargs, locals, checkpointRuns,
                   registrations, checks, ncalls>>

Next ==
    \/ Expect
    \/ DecoratorExpect
    \/ Call
    \/ Resolve
    \/ Validate
    \/ Translate
    \/ Checkpoint
    \/ Register
    \/ CallFunc

Spec == Init /\ [][Next]_vars

\* ================================================================ claims
Both ==
    /\ ctx.dlt_expectation_condition # None
    /\ ctx.ge_expectation_configuration # None

Neither ==
    /\ ctx.dlt_expectation_condition = None
    /\ ctx.ge_expectation_configuration = None

ExactlyOne == ~Both /\ ~Neither

ConditionOnly ==
    /\ ctx.dlt_expectation_condition # None
    /\ ctx.ge_expectation_configuration = None

\* the resolver returns an engine for this decoration
EngineResolvable ==
    get_dlt_library(ctx.dlt_library, globalDlt) # ModuleNotFoundError

Wrapped == stage = "wrapped"
CallStarted == Wrapped /\ ncalls > 0
CallEnded == CallStarted /\ pc = "idle"
NoEffects == checkpointRuns = <<>> /\ registrations = <<>> /\ funcCalls = <<>>
InLog(step) == \E i \in 1..Len(log) : log[i] = step
Before(a, b) == \E i, j \in 1..Len(log) : i < j /\ log[i] = a /\ log[j] = b

\* C1: with both a condition and a configuration (engine resolvable), every
\* call of the wrapped function ends by raising
\* UnsupportedExpectationConfiguration, and in no state of such a call has
\* the original function been called, a checkpoint been run or a
\* registration been made.
C1_BothRaises ==
    (Wrapped /\ Both /\ EngineResolvable) =>
        /\ NoEffects
        /\ pc \in {"idle", "resolve", "validate"}
        /\ CallEnded => outcome = Raised(UnsupportedExpectationConfiguration)

C1_Witness ==
    /\ CallEnded /\ ncalls = MaxCalls /\ Both /\ EngineResolvable
    /\ outcome = Raised(UnsupportedExpectationConfiguration)
    /\ checks = [i \in 1..MaxCalls |-> "both"]

\* C2: with neither a condition nor a configuration (engine resolvable),
\* every call of the wrapped function ends by raising
\* UnsupportedExpectationConfiguration, and in no state of such a call has
\* the original function been called, a checkpoint been run or a
\* registration been made.
C2_NeitherRaises ==
    (Wrapped /\ Neither /\ EngineResolvable) =>
        /\ NoEffects
        /\ pc \in {"idle", "resolve", "validate"}
        /\ CallEnded => outcome = Raised(UnsupportedExpectationConfiguration)

C2_Witness ==
    /\ CallEnded /\ ncalls = MaxCalls /\ Neither /\ EngineResolvable
    /\ ctx.data_context # None /\ Len(args) > 0
    /\ outcome = Raised(UnsupportedExpectationConfiguration)
    /\ checks = [i \in 1..MaxCalls |-> "neither"]

\* C3 as stated: with exactly one of condition and configuration and a
\* resolvable engine, for any data_context and any arguments, a call of the
\* wrapped function calls the original function exactly once with the
\* original arguments and returns its value unchanged.
C3_AlwaysCalledOnce ==
    (CallEnded /\ ExactlyOne /\ EngineResolvable) =>
        /\ funcCalls = <<[args |-> args, kwargs |-> kwargs]>>
        /\ outcome = Returned(Apply(func, args, kwargs))

\* the ways a call that passed the check can end without reaching the
\* original function
TranslationFailed ==
    /\ outcome = Raised(UnsupportedExpectationConfiguration)
    /\ ctx.dlt_expectation_condition = None
    /\ ~from_great_expectations_expectation(ctx.ge_expectation_configuration,
                                            ctx.dlt_expectation_name).ok

NoDataset ==
    /\ outcome = Raised(IndexError)
    /\ ctx.data_context # None
    /\ args = <<>>

CheckpointFailed ==
    /\ outcome = Raised(CheckpointError)
    /\ ctx.data_context # None
    /\ Len(checkpointRuns) = 1
    /\ checkpointRuns[1].result = "raises"

\* C3 (amended): with exactly one of condition and configuration and a
\* resolvable engine, the original function is called at most once per
\* call, with the original arguments; a call ends either by returning the
\* function's value unchanged after exactly one call of it, or, with the
\* function not called, by raising the translation error of an unsupported
\* configuration, the IndexError of a call without positional argument
\* under a data_context, or the error of a failed checkpoint run.
C3_CalledOnceUnlessAborted ==
    (CallStarted /\ ExactlyOne /\ EngineResolvable) =>
        /\ Len(funcCalls) <= 1
        /\ \A i \in 1..Len(funcCalls) :
              funcCalls[i] = [args |-> args, kwargs |-> kwargs]
        /\ (pc # "idle") => funcCalls = <<>>
        /\ CallEnded =>
              \/ /\ outcome = Returned(Apply(func, args, kwargs))
                 /\ Len(funcCalls) = 1
              \/ /\ funcCalls = <<>>
                 /\ TranslationFailed \/ NoDataset \/ CheckpointFailed

C3_Witness ==
    /\ CallEnded /\ ExactlyOne /\ EngineResolvable
    /\ ctx.data_context # None
    /\ Len(args) = MaxArgs /\ kwargs # {}
    /\ outcome = Returned(Apply(func, args, kwargs))
    /\ Len(funcCalls) = 1

\* C4: with no global engine and none injected, a call raises
\* ModuleNotFoundError whatever the condition and configuration are: the
\* condition/configuration check is never reached and the original
\* function is not called.
C4_UnresolvableRaisesFirst ==
    (Wrapped /\ globalDlt = None /\ ctx.dlt_library = None) =>
        /\ NoEffects
        /\ checks = <<>>
        /\ pc \in {"idle", "resolve"}
        /\ CallEnded => outcome = Raised(ModuleNotFoundError)

C4_Witness ==
    /\ CallEnded /\ globalDlt = None /\ ctx.dlt_library = None
    /\ Both
    /\ outcome = Raised(ModuleNotFoundError)

\* C5: once the resolver has run in a call, a bound global engine is the
\* one resolved, whatever engine was injected.
C5_GlobalPreferred ==
    (CallStarted /\ InLog("resolve") /\ globalDlt # None) => dlt = globalDlt

\* C6 as stated: with an injected engine, no global engine and only a
\* condition, every call makes exactly one registration on the injected
\* engine with the name and the condition of the decoration, and does not
\* raise.
C6_AlwaysRegisters ==
    (CallEnded /\ globalDlt = None /\ ctx.dlt_library # None /\ ConditionOnly) =>
        /\ registrations = <<[engine |-> ctx.dlt_library,
                              name |-> ctx.dlt_expectation_name,
                              condition |-> ctx.dlt_expectation_condition]>>
        /\ outcome.kind = "returned"

\* C6 (amended): with an injected engine, no global engine and only a
\* condition, a call makes exactly one registration on the injected engine
\* with the name and the condition of the decoration and does not raise,
\* unless data_context is non-null and the checkpoint step fails (no
\* positional argument, or the run raises): then no registration is made.
C6_RegistersUnlessCheckpointFails ==
    (CallStarted /\ globalDlt = None /\ ctx.dlt_library # None /\ ConditionOnly) =>
        /\ Len(registrations) <= 1
        /\ CallEnded =>
              \/ /\ registrations = <<[engine |-> ctx.dlt_library,
                                       name |-> ctx.dlt_expectation_name,
                                       condition |-> ctx.dlt_expectation_condition]>>
                 /\ outcome.kind = "returned"
              \/ /\ registrations = <<>>
                 /\ NoDataset \/ CheckpointFailed

C6_Witness ==
    /\ CallEnded /\ globalDlt = None /\ ConditionOnly
    /\ ctx.dlt_library = "dlt_stub"
    /\ ctx.dlt_expectation_name = "positive_col1"
    /\ ctx.dlt_expectation_condition = "col1 > 0"
    /\ registrations = <<[engine |-> "dlt_stub", name |-> "positive_col1",
                          condition |-> "col1 > 0"]>>
    /\ outcome.kind = "returned"

\* what decoration leaves behind, and what the check reports in each call
C7_DecorationState ==
    /\ ncalls = 0 =>
          /\ outcome = NoOutcome
          /\ log = <<>>
          /\ NoEffects
          /\ dlt = None
          /\ checks = <<>>
    /\ \A i \in 1..Len(checks) :
          checks[i] = IF Both THEN "both" ELSE IF Neither THEN "neither" ELSE "ok"
    /\ (CallEnded /\ EngineResolvable) => Len(checks) = ncalls

\* C7: decoration (expect() and the application of the decorator) raises
\* nothing and performs no resolution, checkpoint run or registration; the
\* check's error appears only in calls; the decoration context never
\* changes once bound, and all calls of the wrapped function that reach the
\* check get the same outcome from it, the one the context determines.
C7_CheckOnlyAtCallTime ==
    /\ []C7_DecorationState
    /\ [][stage # "start" => ctx' = ctx]_vars
    /\ [][stage' # stage => UNCHANGED <<pc, log, effects, outcome, checks, dlt>>]_vars

C7_Witness ==
    /\ CallEnded /\ ncalls = MaxCalls
    /\ checks = [i \in 1..MaxCalls |-> "neither"]

\* position of a step in the order the claims state
Rank(step) ==
    CASE step = "resolve" -> 1
      [] step = "validate" -> 2
      [] step = "translate" -> 3
      [] step = "checkpoint" -> 4
      [] step = "register" -> 5
      [] step = "func" -> 6
      [] OTHER -> 0

\* C8: the steps of a call happen in the order resolution, check,
\* translation, checkpoint run, registration, original function; the
\* checkpoint run happens exactly when data_context is non-null, and then
\* before the registration.
C8_StepOrder ==
    /\ \A i, j \in 1..Len(log) : i < j => Rank(log[i]) < Rank(log[j])
    /\ \A i \in 1..Len(log) : i > 1 /\ log[i] # "checkpoint" =>
          /\ Rank(log[i - 1]) >= Rank(log[i]) - 2
          /\ log[i] # "register" => Rank(log[i - 1]) = Rank(log[i]) - 1
    /\ log # <<>> => log[1] = "resolve"
    /\ ctx.data_context = None => ~InLog("checkpoint") /\ checkpointRuns = <<>>
    /\ (ctx.data_context # None /\ InLog("register")) =>
          /\ Before("checkpoint", "register")
          /\ Len(checkpointRuns) = 1
    /\ InLog("checkpoint") => Before("translate", "checkpoint")
    /\ InLog("func") => Before("register", "func")

C8_Witness ==
    /\ CallEnded
    /\ ctx.data_context # None
    /\ log = <<"resolve", "validate", "translate", "checkpoint", "register", "func">>

\* C9: a checkpoint run gets the first positional argument as dataset and
\* the decoration's ge_expectation_configuration as configuration, so None
\* when only a condition was given (the translated configuration is not
\* passed); under a data_context a call without positional argument fails
\* with no registration made and the original function not called.
C9_CheckpointArguments ==
    /\ \A i \in 1..Len(checkpointRuns) :
          /\ Len(args) > 0
          /\ checkpointRuns[i].df = args[1]
          /\ checkpointRuns[i].data_context = ctx.data_context
          /\ checkpointRuns[i].expectation_configuration =
                ctx.ge_expectation_configuration
          /\ ConditionOnly =>
                /\ checkpointRuns[i].expectation_configuration = None
                /\ ge_expectation # NoConfig
    /\ (CallStarted /\ ctx.data_context # None /\ args = <<>>) =>
          /\ NoEffects
          /\ pc \notin {"register", "func"}
          /\ CallEnded => outcome.kind = "raised"
          /\ (CallEnded /\ dlt_expectation # Unbound) => outcome = Raised(IndexError)

C9_Witness ==
    /\ ConditionOnly
    /\ Len(args) = MaxArgs /\ args[1] # args[MaxArgs]
    /\ Len(checkpointRuns) = 1
    /\ checkpointRuns[1].df = args[1]
    /\ checkpointRuns[1].expectation_configuration = None
    /\ ge_expectation.column = "col1"

\* C10: an error of the checkpoint run ends the call with that error: the
\* run is not repeated, no registration is made and the original function
\* is not called; and the original function never runs in a call without
\* the registration having been made before it.
C10_CheckpointFailureAborts ==
    /\ Len(checkpointRuns) <= 1
    /\ \A i \in 1..Len(checkpointRuns) : checkpointRuns[i].result = "raises" =>
          /\ pc = "idle"
          /\ outcome = Raised(CheckpointError)
          /\ registrations = <<>>
          /\ funcCalls = <<>>
    /\ outcome.err = CheckpointError =>
          /\ Len(checkpointRuns) = 1
          /\ checkpointRuns[1].result = "raises"
    /\ funcCalls # <<>> =>
          /\ Len(registrations) = 1
          /\ Before("register", "func")

C10_Witness ==
    /\ CallEnded
    /\ outcome = Raised(CheckpointError)
    /\ Len(checkpointRuns) = 1
    /\ log = <<"resolve", "validate", "translate", "checkpoint">>

====
